---- MODULE Spec2Model ----
(***************************************************************************)
(* BaseHysteresis (src/hysteresis/base.py): the history buffers, the mode  *)
(* and the mode-dispatched forward() of the differentiable Preisach model. *)
(*                                                                         *)
(* Numbers.  A real field value is an integer number of 1e-5 steps, so     *)
(* that the tolerance of the domain check (1e-4) is 10 steps and 1.0 is    *)
(* One = 100000 steps.  A normalized value is an integer number of         *)
(* 1/NormOne steps.  Tensors are records [shape, vals]: shape <<>> is a    *)
(* 0-d tensor, <<n>> a 1-D tensor and <<1, n>> a 2-D tensor of one row;    *)
(* vals holds the values in order.  None is Python's None.                 *)
(*                                                                         *)
(* states.py, transform.py, modes.py and meshing.py are not part of the    *)
(* sources at hand; their operators below follow the written design        *)
(* (State Function, Batched State Function, Transform, Mesh, Mode).        *)
(* The state function is modelled in its zero-temperature limit (hard      *)
(* relays), the parameters keep the values __init__ gives them, and        *)
(* forward() is modelled with return_real = False, its default.            *)
(*                                                                         *)
(* ExactHybridGP (src/hysteresis/hybrid.py): its mode, its list of         *)
(* hysteresis models and the calls that evaluate them.  The Gaussian       *)
(* process and the Normalize/Standardize transforms are botorch objects;   *)
(* what they compute is represented by the magnetization matrix they are   *)
(* given.  A matrix X of N rows and one column per hysteresis model is     *)
(* held as the sequence of its columns, so that X[..., idx] is X[idx].     *)
(* Spec runs one BaseHysteresis, HybridSpec one ExactHybridGP.             *)
(***************************************************************************)
EXTENDS Integers, Sequences, FiniteSets, TLC

VARIABLES
  _buffers,       \* torch buffers of the module: name -> value; holds a subset
                  \* of "_history_h" (normalized fields, a sequence),
                  \* "_history_m" (normalized outputs, a tensor) and "_states"
                  \* (state matrix, a sequence of rows over the mesh)
  _mode,          \* ModeModule._mode
  transformer,    \* the HysteresisTransform in use
  trainable,      \* constructor argument trainable
  fixed_scaling,  \* constructor argument fixed_scaling
  last,           \* the call that has just ended and how it ended, or Idle
                  \* once the caller has taken its outcome
  hybrid_mode,    \* ExactHybridGP: ModeModule._mode of the hybrid model
  hysteresis_models,  \* ExactHybridGP.hysteresis_models: a sequence of
                  \* [buffers, mode, transformer], one per BaseHysteresis
  hybrid_last     \* the call on the hybrid model that has just ended, or Idle

vars == <<_buffers, _mode, transformer, trainable, fixed_scaling, last,
          hybrid_mode, hysteresis_models, hybrid_last>>

hybrid_vars == <<hybrid_mode, hysteresis_models, hybrid_last>>

base_vars == <<_buffers, _mode, transformer, trainable, fixed_scaling, last>>

(***************************************************************************)
(* Bounds of the model.                                                    *)
(***************************************************************************)
\* longest stored field history
MaxHist == 3
\* longest tensor handed to apply_field and forward as fresh values
MaxIn == 2
\* number of hysteresis models of the hybrid model
NumModels == 2

(***************************************************************************)
(* Numbers and tensors.                                                    *)
(***************************************************************************)
\* base.py:334  machine_error = 1e-4, in steps of 1e-5
machine_error == 10

\* 1.0 as a real value: 1e4 times the tolerance of 1e-4
One == 10000 * machine_error

\* 1.0 as a normalized value
NormOne == 2 * One

None == [shape |-> <<0 - 1>>, vals |-> <<>>]

isTensor(x) == x # None

T0(v) == [shape |-> <<>>, vals |-> <<v>>]

T1(s) == [shape |-> <<Len(s)>>, vals |-> s]

T2(s) == [shape |-> <<1, Len(s)>>, vals |-> s]

SetMin(S) == CHOOSE a \in S : \A b \in S : a <= b

SetMax(S) == CHOOSE a \in S : \A b \in S : a >= b

Range(s) == {s[i] : i \in 1..Len(s)}

Abs(a) == IF a < 0 THEN 0 - a ELSE a

\* sequences over S of length lo..hi
SeqsOf(S, lo, hi) == UNION {[1..n -> S] : n \in lo..hi}

\* torch.atleast_1d
atleast_1d(h) == IF h.shape = <<>> THEN T1(h.vals) ELSE h

\* torch.equal: same shape and same values
torch_equal(a, b) == a.shape = b.shape /\ a.vals = b.vals

(***************************************************************************)
(* Modes (modes.py).                                                       *)
(***************************************************************************)
FITTING == "FITTING"

REGRESSION == "REGRESSION"

NEXT == "NEXT"

FUTURE == "FUTURE"

CURRENT == "CURRENT"

Modes == {FITTING, REGRESSION, NEXT, FUTURE, CURRENT}

(***************************************************************************)
(* Transform (transform.py): affine in h over the domain, a shift in m.    *)
(***************************************************************************)
\* HysteresisTransform(train_h, train_m, fixed_domain = None, ...): the domain
\* is the span of the training fields, [0, 1] without training fields
HysteresisTransform(train_h, train_m) ==
  [domain   |-> IF isTensor(train_h)
                THEN <<SetMin(Range(train_h.vals)), SetMax(Range(train_h.vals))>>
                ELSE <<0, One>>,
   offset_m |-> IF isTensor(train_m) THEN SetMin(Range(train_m.vals)) ELSE 0]

\* normalized steps per real step
Gain(t) == NormOne \div (t.domain[2] - t.domain[1])

transform_h(t, v) == (v - t.domain[1]) * Gain(t)

untransform_h(t, n) == t.domain[1] + (n \div Gain(t))

\* transformer.transform(h, m): <<normalized h, normalized m or None>>
transform(t, h, m) ==
  << [shape |-> h.shape,
      vals  |-> [i \in 1..Len(h.vals) |-> transform_h(t, h.vals[i])]],
     IF isTensor(m)
     THEN [shape |-> m.shape,
           vals  |-> [i \in 1..Len(m.vals) |-> m.vals[i] - t.offset_m]]
     ELSE None >>

\* transformer.untransform(h)[0] of a 1-D normalized sequence
untransform(t, nh) == [i \in 1..Len(nh) |-> untransform_h(t, nh[i])]

(***************************************************************************)
(* Mesh (meshing.py) and State Function (states.py), hard relays.          *)
(***************************************************************************)
\* hysterons (alpha, beta), alpha >= beta, on the normalized unit interval
mesh_points ==
  << [alpha |-> NormOne \div 2, beta |-> 0],
     [alpha |-> NormOne \div 2, beta |-> NormOne \div 2],
     [alpha |-> NormOne,        beta |-> NormOne \div 2],
     [alpha |-> NormOne,        beta |-> 0] >>

n_mesh_points == Len(mesh_points)

\* negative saturation: every hysteron down
saturation == [j \in 1..n_mesh_points |-> 0]

NoState == <<>>

\* one step of the relays: a rising field past alpha forces the hysteron up, a
\* falling field past beta forces it down, otherwise the state is retained
sweep(h, field, state) ==
  [j \in 1..n_mesh_points |->
     IF h > field /\ h >= mesh_points[j].alpha THEN 1
     ELSE IF h < field /\ h <= mesh_points[j].beta THEN 0
     ELSE state[j]]

RECURSIVE replay(_, _, _)
replay(h, state, field) ==
  IF h = <<>> THEN <<>>
  ELSE LET s == sweep(Head(h), field, state)
       IN  <<s>> \o replay(Tail(h), s, Head(h))

\* get_states(h, mesh_points, current_state, current_field): one row per value
\* of h, from saturation unless a current state and field are given
get_states(h, current_state, current_field) ==
  IF current_state = NoState
  THEN replay(h, saturation, 0)
  ELSE replay(h, current_state, current_field)

\* predict_batched_state as it would be if each candidate continued from the
\* candidate before it
predict_chained_state(h, current_state, current_field) ==
  get_states(h, current_state, current_field)

\* predict_batched_state: every candidate is one step from the same state
predict_batched_state(h, current_state, current_field) ==
  [i \in 1..Len(h) |->
     IF current_state = NoState
     THEN sweep(h[i], 0, saturation)
     ELSE sweep(h[i], current_field, current_state)]

(***************************************************************************)
(* Parameters, as __init__ leaves them (base.py:127-160).                  *)
(***************************************************************************)
\* base.py:158  self.offset = torch.zeros(1)
offset == 0

\* base.py:159  self.scale = torch.ones(1)
scale == 1

\* base.py:160  self.slope = torch.ones(1)
slope == 1

\* base.py:128-134  raw density zeros under Interval(0, 1): equal weights
hysterion_density == [j \in 1..n_mesh_points |-> 1]

RECURSIVE SeqSum(_)
SeqSum(s) == IF s = <<>> THEN 0 ELSE Head(s) + SeqSum(Tail(s))

\* _predict_normalized_magnetization as it would be without the slope term
_predict_without_slope(states, h) ==
  [i \in 1..Len(h) |->
     scale * ((NormOne * SeqSum([j \in 1..n_mesh_points |->
                                   hysterion_density[j] * states[i][j]]))
              \div SeqSum(hysterion_density))
     + offset * NormOne]

\* base.py:230-234
_predict_normalized_magnetization(states, h) ==
  [i \in 1..Len(h) |->
     scale * ((NormOne * SeqSum([j \in 1..n_mesh_points |->
                                   hysterion_density[j] * states[i][j]]))
              \div SeqSum(hysterion_density))
     + offset * NormOne + h[i] * slope]

\* base.py:364-366
valid_domain(t) == t.domain

\* _check_inside_valid_domain as it would be if it looked at values[0] alone
_check_first_value(t, values) ==
  ~ \/ values.vals[1] < valid_domain(t)[1] - machine_error
    \/ values.vals[1] > valid_domain(t)[2] + machine_error

\* _check_inside_valid_domain as it would be without the test of the lower end
_check_upper_only(t, values) ==
  ~ \E i \in 1..Len(values.vals) :
       values.vals[i] > valid_domain(t)[2] + machine_error

\* base.py:333-342: TRUE when no value is outside the domain beyond the tolerance
_check_inside_valid_domain(t, values) ==
  ~ \/ \E i \in 1..Len(values.vals) :
          values.vals[i] < valid_domain(t)[1] - machine_error
    \/ \E i \in 1..Len(values.vals) :
          values.vals[i] > valid_domain(t)[2] + machine_error

\* the comparison as it would be with == in place of torch.allclose
isequal(x, y) == x = y

\* torch.allclose(x, y), rtol = 1e-5, atol = 1e-8: |x - y| <= atol + rtol * |y|,
\* which in steps of 1e-5 is |x - y| <= (100 + |y|) / 1e5
isclose(x, y) == Abs(x - y) <= (100 + Abs(y)) \div One

\* the shapes of x and of a 1-D y of length k broadcast together
broadcastable(x, k) ==
  LET n == Len(x.vals) IN n = k \/ n = 1 \/ k = 1

allclose(x, y) ==
  \A i \in 1..SetMax({Len(x.vals), Len(y)}) :
     isclose(x.vals[IF Len(x.vals) = 1 THEN 1 ELSE i],
             y[IF Len(y) = 1 THEN 1 ELSE i])

(***************************************************************************)
(* Buffers (torch.nn.Module): register_buffer, hasattr, del.               *)
(***************************************************************************)
hasattr(b, name) == name \in DOMAIN b

register_buffer(b, name, value) ==
  [n \in DOMAIN b \cup {name} |-> IF n = name THEN value ELSE b[n]]

delattr(b, name) == [n \in DOMAIN b \ {name} |-> b[n]]

NoBuffers == [n \in {} |-> None]

\* _update_h_history_buffer as it would be without recalculating the states
_update_h_history_buffer_stale(b, norm_history_h) ==
  register_buffer(
    register_buffer(b, "_history_h", norm_history_h), "_states",
    IF hasattr(b, "_states") THEN b["_states"]
    ELSE get_states(norm_history_h, NoState, 0))

\* _update_h_history_buffer as it would be if the states were recalculated
\* from the last cached state and field in place of saturation
_update_h_history_buffer_continued(b, norm_history_h) ==
  register_buffer(
    register_buffer(b, "_history_h", norm_history_h), "_states",
    IF hasattr(b, "_states")
    THEN get_states(norm_history_h, b["_states"][Len(b["_states"])],
                    IF hasattr(b, "_history_h")
                    THEN b["_history_h"][Len(b["_history_h"])] ELSE 0)
    ELSE get_states(norm_history_h, NoState, 0))

\* base.py:209-214
_update_h_history_buffer(b, norm_history_h) ==
  register_buffer(register_buffer(b, "_history_h", norm_history_h),
                  "_states", get_states(norm_history_h, NoState, 0))

\* base.py:372-374, as hasattr(self, "history_h") sees it: the property reads
\* self._history_h, so the attribute exists exactly when the buffer does
has_history_h(b) == hasattr(b, "_history_h")

history_h(b, t) == untransform(t, b["_history_h"])

(***************************************************************************)
(* forward (base.py:242-331).  The outcome is [exc, kind, result]: exc the *)
(* exception class or "none", kind the error of the design's taxonomy.     *)
(***************************************************************************)
Return(result) == [exc |-> "none", kind |-> "none", result |-> result]

Raise(exc, kind) == [exc |-> exc, kind |-> kind, result |-> None]

\* current_state as it would be if it read the first row of the state matrix
current_state_first(b) ==
  IF has_history_h(b) THEN b["_states"][1] ELSE NoState

\* current_state as it would be if it went by the _states buffer, which
\* reset_history leaves behind
current_state_stale(b) ==
  IF hasattr(b, "_states") THEN b["_states"][Len(b["_states"])] ELSE NoState

\* current_fld as it would be if the last applied field were forgotten
current_fld_zero(b) == 0

\* base.py:250-256
current_fld(b) ==
  IF has_history_h(b) THEN b["_history_h"][Len(b["_history_h"])] ELSE 0

current_state(b) ==
  IF has_history_h(b) THEN b["_states"][Len(b["_states"])] ELSE NoState

\* base.py:258-276
forward_FITTING(b, t, x) ==
  IF ~has_history_h(b) THEN Raise("RuntimeError", "mode")
  ELSE IF ~hasattr(b, "_history_m") THEN Raise("AttributeError", "attribute")
  ELSE IF <<Len(b["_history_h"])>> # b["_history_m"].shape
       THEN Raise("HysteresisError", "mode")
  ELSE IF ~broadcastable(x, Len(b["_history_h"]))
       THEN Raise("RuntimeError", "shape")
  ELSE IF ~allclose(x, history_h(b, t)) THEN Raise("HysteresisError", "mode")
  ELSE Return(T1(_predict_normalized_magnetization(b["_states"],
                                                    b["_history_h"])))

\* the REGRESSION branch as it would be if it continued from the cached state
forward_REGRESSION_continues(b, t, x) ==
  LET norm_h == transform(t, x, None)[1] IN
  IF Len(norm_h.shape) # 1 THEN Raise("Exception", "shape")
  ELSE Return([shape |-> norm_h.shape,
               vals  |-> _predict_normalized_magnetization(
                           get_states(norm_h.vals, current_state(b),
                                      current_fld(b)), norm_h.vals)])

\* base.py:278-282
forward_REGRESSION(b, t, x) ==
  LET norm_h == transform(t, x, None)[1] IN
  IF Len(norm_h.shape) # 1 THEN Raise("Exception", "shape")
  ELSE Return([shape |-> norm_h.shape,
               vals  |-> _predict_normalized_magnetization(
                           get_states(norm_h.vals, NoState, 0), norm_h.vals)])

\* base.py:284-292
forward_CURRENT(b, t, x) ==
  IF ~has_history_h(b) THEN Raise("HysteresisError", "mode")
  ELSE Return(T1(_predict_normalized_magnetization(<<current_state(b)>>,
                                                    <<current_fld(b)>>)))

\* base.py:294-306
forward_FUTURE(b, t, x) ==
  IF Len(x.shape) # 1 THEN Raise("ValueError", "shape")
  ELSE LET norm_h == transform(t, x, None)[1] IN
       Return([shape |-> norm_h.shape,
               vals  |-> _predict_normalized_magnetization(
                           get_states(norm_h.vals, current_state(b),
                                      current_fld(b)), norm_h.vals)])

\* base.py:308-318
forward_NEXT(b, t, x) ==
  LET norm_h == transform(t, x, None)[1] IN
  Return([shape |-> norm_h.shape,
          vals  |-> _predict_normalized_magnetization(
                      predict_batched_state(norm_h.vals, current_state(b),
                                            current_fld(b)), norm_h.vals)])

\* base.py:242-331: forward(x) of a model with buffers b, transformer t, mode
forward(b, t, mode, x) ==
  IF isTensor(x) /\ ~_check_inside_valid_domain(t, x)
  THEN Raise("HysteresisError", "domain")
  ELSE IF ~isTensor(x) /\ mode # CURRENT THEN Raise("HysteresisError", "mode")
  ELSE IF mode = FITTING THEN forward_FITTING(b, t, x)
  ELSE IF mode = REGRESSION THEN forward_REGRESSION(b, t, x)
  ELSE IF mode = CURRENT THEN forward_CURRENT(b, t, x)
  ELSE IF mode = FUTURE THEN forward_FUTURE(b, t, x)
  ELSE IF mode = NEXT THEN forward_NEXT(b, t, x)
  ELSE Raise("ValueError", "unknown-mode")

(***************************************************************************)
(* The calls a user makes, and their arguments.                            *)
(***************************************************************************)
Call(op, x, m, out) ==
  [op |-> op, x |-> x, m |-> m, exc |-> out.exc, kind |-> out.kind,
   result |-> out.result]

Idle == [op |-> "idle", x |-> None, m |-> None, exc |-> "none",
         kind |-> "none", result |-> None]

\* the mode argument of get_magnetization left at its default, None
NoMode == "None"

\* no call on the hybrid model is awaiting its caller
HybridIdle ==
  [op |-> "idle", X |-> <<>>, mode |-> NoMode, exc |-> "none",
   kind |-> "none", result |-> None, evaluated |-> <<>>]

\* history_h of set_history: training fields over [0, 1] and over [0, 2] as
\* 1-D tensors, and a 2-D tensor of one row
HistoryArgs ==
  {T1(<<0, One>>), T1(<<0, 2 * One>>), T1(<<2 * One, 0>>), T2(<<0, 2 * One>>)}

\* history_m of set_history(h, m): absent, h itself, other outputs of the same
\* length, outputs of another length, and a 2-D tensor
OutputArgs(h) ==
  LET other == [i \in 1..Len(h.vals) |-> i * (One \div 2)] IN
  {None, h, T1(other), T1(other \o <<0>>), T2(other)}

\* the valid domain's ends and middle
InsideVals(t) ==
  {valid_domain(t)[1],
   (valid_domain(t)[1] + valid_domain(t)[2]) \div 2,
   valid_domain(t)[2]}

\* the first value above the valid domain that is beyond the tolerance
Outside(t) == valid_domain(t)[2] + machine_error + 1

\* the last value above the valid domain that is within the tolerance
Edge(t) == valid_domain(t)[2] + machine_error

\* the first value below the valid domain that is beyond the tolerance
Below(t) == valid_domain(t)[1] - machine_error - 1

\* the value 1.0 above the valid domain
Beyond(t) == valid_domain(t)[2] + One

\* the value 1e-5 below the upper end of the valid domain
JustInside(t) == valid_domain(t)[2] - 1

\* h of apply_field: a scalar or a 1-D tensor
FieldArgs(t) ==
  {T0(v) : v \in InsideVals(t) \cup {Outside(t), Below(t), Beyond(t)}}
    \cup {T1(s) : s \in SeqsOf(InsideVals(t), 1, MaxIn)}
    \cup {T1(<<valid_domain(t)[1], Outside(t)>>)}

\* x of forward: nothing, fresh 1-D tensors inside and outside the domain, a
\* 2-D tensor, the stored history and near misses of it
ForwardArgs(b, t) ==
  {None, T1(<<Outside(t)>>), T1(<<valid_domain(t)[1], Outside(t)>>),
   T1(<<Edge(t)>>), T1(<<Below(t)>>), T1(<<Beyond(t)>>), T1(<<JustInside(t)>>),
   T2(<<valid_domain(t)[1], valid_domain(t)[2]>>),
   T1(<<valid_domain(t)[1], valid_domain(t)[2]>>)}
    \cup {T1(<<v>>) : v \in InsideVals(t)}
    \cup (IF has_history_h(b)
          THEN LET hh == history_h(b, t)
                   n  == Len(hh)
               IN {T1(hh),
                   T1([hh EXCEPT ![n] = @ - 1]),
                   T1([hh EXCEPT ![1] = valid_domain(t)[2] - hh[1]
                                          + valid_domain(t)[1]])}
          ELSE {})

(***************************************************************************)
(* Init: BaseHysteresis(fixed_scaling = ...) without training data, the    *)
(* other arguments at their defaults (base.py:23-37, 110-173).             *)
(***************************************************************************)
Init ==
  /\ trainable = TRUE
  /\ fixed_scaling \in BOOLEAN
  /\ transformer = HysteresisTransform(None, None)
  /\ _buffers = NoBuffers
  /\ _mode = FITTING
  /\ last = Idle
  /\ hybrid_mode = FITTING
  /\ hysteresis_models = <<>>
  /\ hybrid_last = HybridIdle

\* base.py:175-207: the state set_history(h, m) leaves and how it ends,
\* as [buffers, mode, transformer, out]
set_history(b, mode, t, history_h_, history_m_) ==
  LET t1 == IF trainable /\ ~fixed_scaling
            THEN HysteresisTransform(history_h_, history_m_)
            ELSE t
  IN
  IF Len(history_h_.shape) # 1
  THEN [buffers |-> b, mode |-> mode, transformer |-> t1,
        out |-> Raise("ValueError", "config")]
  ELSE IF isTensor(history_m_) /\ torch_equal(history_h_, history_m_)
  THEN [buffers |-> b, mode |-> mode, transformer |-> t1,
        out |-> Raise("RuntimeError", "config")]
  ELSE
    LET norm == transform(t1, history_h_, history_m_)
        b1   == _update_h_history_buffer(b, norm[1].vals)
    IN
    IF isTensor(norm[2])
    THEN [buffers |-> register_buffer(b1, "_history_m", norm[2]),
          mode |-> mode, transformer |-> t1, out |-> Return(None)]
    ELSE
      LET r == forward(b1, t1, REGRESSION, history_h_) IN
      IF r.exc # "none"
      THEN [buffers |-> b1, mode |-> REGRESSION, transformer |-> t1, out |-> r]
      ELSE [buffers |-> register_buffer(b1, "_history_m", r.result),
            mode |-> mode, transformer |-> t1, out |-> Return(None)]

SetHistory ==
  \E h \in HistoryArgs : \E m \in OutputArgs(h) :
    /\ last = Idle
    /\ (trainable /\ ~fixed_scaling) =>
         SetMin(Range(h.vals)) < SetMax(Range(h.vals))
    /\ LET r == set_history(_buffers, _mode, transformer, h, m) IN
       /\ _buffers' = r.buffers
       /\ _mode' = r.mode
       /\ transformer' = r.transformer
       /\ last' = Call("set_history", h, m, r.out)
    /\ UNCHANGED <<trainable, fixed_scaling>>
    /\ UNCHANGED hybrid_vars

\* apply_field as it would be without torch.cat: the new values replace the
\* stored history
apply_field_overwrites(b, t, h_) ==
  LET h == atleast_1d(h_) IN
  IF ~_check_inside_valid_domain(t, h)
  THEN [buffers |-> b, out |-> Raise("HysteresisError", "domain")]
  ELSE [buffers |-> _update_h_history_buffer(b, transform(t, h, None)[1].vals),
        out |-> Return(None)]

\* base.py:216-228: the buffers apply_field(h) leaves and how it ends
apply_field(b, t, h_) ==
  LET h == atleast_1d(h_) IN
  IF ~_check_inside_valid_domain(t, h)
  THEN [buffers |-> b, out |-> Raise("HysteresisError", "domain")]
  ELSE
    LET new == transform(t, h, None)[1].vals
        _history_h == IF hasattr(b, "_history_h")
                      THEN b["_history_h"] \o new
                      ELSE new
    IN [buffers |-> _update_h_history_buffer(b, _history_h),
        out |-> Return(None)]

ApplyField ==
  \E h \in FieldArgs(transformer) :
    /\ last = Idle
    /\ (IF hasattr(_buffers, "_history_h")
        THEN Len(_buffers["_history_h"]) ELSE 0) + Len(h.vals) <= MaxHist
    /\ LET r == apply_field(_buffers, transformer, h) IN
       /\ _buffers' = r.buffers
       /\ last' = Call("apply_field", h, None, r.out)
    /\ UNCHANGED <<_mode, transformer, trainable, fixed_scaling>>
    /\ UNCHANGED hybrid_vars

\* reset_history as it would be without del self._history_h
reset_history_keeps_h(b) ==
  IF ~hasattr(b, "_history_m")
  THEN [buffers |-> b, out |-> Raise("AttributeError", "attribute")]
  ELSE [buffers |-> delattr(b, "_history_m"), out |-> Return(None)]

\* base.py:344-346: del raises AttributeError for a buffer that is not there
reset_history(b) ==
  IF ~hasattr(b, "_history_h")
  THEN [buffers |-> b, out |-> Raise("AttributeError", "attribute")]
  ELSE IF ~hasattr(b, "_history_m")
  THEN [buffers |-> delattr(b, "_history_h"),
        out |-> Raise("AttributeError", "attribute")]
  ELSE [buffers |-> delattr(delattr(b, "_history_h"), "_history_m"),
        out |-> Return(None)]

ResetHistory ==
  /\ last = Idle
  /\ LET r == reset_history(_buffers) IN
     /\ _buffers' = r.buffers
     /\ last' = Call("reset_history", None, None, r.out)
  /\ UNCHANGED <<_mode, transformer, trainable, fixed_scaling>>
  /\ UNCHANGED hybrid_vars

\* forward as it would be if FUTURE and NEXT mode committed x to the history
Forward_commits ==
  \E x \in ForwardArgs(_buffers, transformer) :
    /\ last = Idle
    /\ last' = Call("forward", x, None, forward(_buffers, transformer, _mode, x))
    /\ _buffers' =
         IF /\ _mode \in {FUTURE, NEXT}
            /\ isTensor(x) /\ Len(x.shape) = 1
            /\ (IF hasattr(_buffers, "_history_h") THEN Len(_buffers["_history_h"]) ELSE 0)
                 + Len(x.vals) <= MaxHist
         THEN apply_field(_buffers, transformer, x).buffers
         ELSE _buffers
    /\ UNCHANGED <<_mode, transformer, trainable, fixed_scaling>>
    /\ UNCHANGED hybrid_vars

\* base.py:242-331: forward(x) by the caller
Forward ==
  \E x \in ForwardArgs(_buffers, transformer) :
    /\ last = Idle
    /\ last' = Call("forward", x, None, forward(_buffers, transformer, _mode, x))
    /\ UNCHANGED <<_buffers, _mode, transformer, trainable, fixed_scaling>>
    /\ UNCHANGED hybrid_vars

\* model.mode = m by the caller (modes.py)
SetMode ==
  \E m \in Modes :
    /\ last = Idle
    /\ _mode' = m
    /\ last' = Call("mode", None, None, Return(None))
    /\ UNCHANGED <<_buffers, transformer, trainable, fixed_scaling>>
    /\ UNCHANGED hybrid_vars

\* the caller takes the outcome of the call; the model awaits the next call
TakeOutcome ==
  /\ last # Idle
  /\ last' = Idle
  /\ UNCHANGED <<_buffers, _mode, transformer, trainable, fixed_scaling>>
  /\ UNCHANGED hybrid_vars

Next ==
  \/ TakeOutcome
  \/ SetHistory
  \/ ApplyField
  \/ ResetHistory
  \/ Forward
  \/ SetMode

Spec == Init /\ [][Next]_vars

(***************************************************************************)
(* ExactHybridGP (hybrid.py).                                              *)
(***************************************************************************)
\* Python's truth value of a mode argument in "mode or self.mode": None is
\* false, the modes of modes.py are true
truthy(mode) == mode # NoMode

\* X[..., idx]
column(X, idx) == T1(X[idx])

\* transformer.untransform(norm_h, m)[1], the result with return_real = True
untransform_m(t, m) ==
  [shape |-> m.shape,
   vals  |-> [i \in 1..Len(m.vals) |-> m.vals[i] + t.offset_m]]

\* torch.cat([ele.unsqueeze(-1) for ele in train_m], dim=-1)
cat(train_m) ==
  IF \A i \in 1..Len(train_m) : train_m[i].shape = train_m[1].shape
  THEN Return([shape |-> train_m[1].shape \o <<Len(train_m)>>,
               vals  |-> [i \in 1..Len(train_m) |-> train_m[i].vals]])
  ELSE Raise("RuntimeError", "shape")

\* the outcome of a call on the hybrid model: the hysteresis models it leaves,
\* how it ends, and the mode each evaluated hysteresis model was evaluated in
Outcome(models, out, evaluated) ==
  [models |-> models, out |-> out, evaluated |-> evaluated]

\* the loop of get_magnetization as it would be if it took the mode argument
\* for the first hysteresis model alone
RECURSIVE evaluate_first_only(_, _, _, _, _, _, _)
evaluate_first_only(models, own, X, mode, idx, train_m, evaluated) ==
  IF idx > Len(models) THEN Outcome(models, cat(train_m), evaluated)
  ELSE
    LET ms == [models EXCEPT ![idx].mode =
                 IF truthy(mode) /\ idx = 1 THEN mode ELSE own]
        hyst_model == ms[idx]
        r  == forward(hyst_model.buffers, hyst_model.transformer,
                      hyst_model.mode, column(X, idx))
    IN IF r.exc # "none"
       THEN Outcome(ms, r, Append(evaluated, hyst_model.mode))
       ELSE evaluate_first_only(ms, own, X, mode, idx + 1,
              Append(train_m, untransform_m(hyst_model.transformer, r.result)),
              Append(evaluated, hyst_model.mode))

\* hybrid.py:122-124: the loop of get_magnetization from model idx on
RECURSIVE evaluate(_, _, _, _, _, _, _)
evaluate(models, own, X, mode, idx, train_m, evaluated) ==
  IF idx > Len(models) THEN Outcome(models, cat(train_m), evaluated)
  ELSE
    LET ms == [models EXCEPT ![idx].mode = IF truthy(mode) THEN mode ELSE own]
        hyst_model == ms[idx]
        r  == forward(hyst_model.buffers, hyst_model.transformer,
                      hyst_model.mode, column(X, idx))
    IN IF r.exc # "none"
       THEN Outcome(ms, r, Append(evaluated, hyst_model.mode))
       ELSE evaluate(ms, own, X, mode, idx + 1,
              Append(train_m, untransform_m(hyst_model.transformer, r.result)),
              Append(evaluated, hyst_model.mode))

\* hybrid.py:119-125: get_magnetization(X, mode) of a hybrid model whose own
\* mode is own
get_magnetization(models, own, X, mode) ==
  evaluate(models, own, X, mode, 1, <<>>, <<>>)

\* hybrid.py:127-134
get_normalized_magnetization(models, own, X) ==
  get_magnetization(models, own, X, NoMode)

\* posterior as it would be without the test of the mode
posterior_unchecked(models, own, X) ==
  get_normalized_magnetization(models, own, X)

\* hybrid.py:136-145
posterior(models, own, X) ==
  IF own # NEXT
  THEN Outcome(models, Raise("HysteresisError", "mode"), <<>>)
  ELSE get_normalized_magnetization(models, own, X)

\* hybrid.py:111-113: set_history(train_h[:, idx]) from model idx on
RECURSIVE _set_hysteresis_model_train_data(_, _, _)
_set_hysteresis_model_train_data(models, train_h, idx) ==
  IF idx > Len(models) THEN Outcome(models, Return(None), <<>>)
  ELSE
    LET hyst_model == models[idx]
        r  == set_history(hyst_model.buffers, hyst_model.mode,
                          hyst_model.transformer, column(train_h, idx), None)
        ms == [models EXCEPT ![idx] = [buffers |-> r.buffers, mode |-> r.mode,
                                       transformer |-> r.transformer]]
    IN IF r.out.exc # "none" THEN Outcome(ms, r.out, <<>>)
       ELSE _set_hysteresis_model_train_data(ms, train_h, idx + 1)

\* hybrid.py:115-117: apply_field(x[:, idx]) from model idx on
RECURSIVE apply_fields(_, _, _)
apply_fields(models, x, idx) ==
  IF idx > Len(models) THEN Outcome(models, Return(None), <<>>)
  ELSE
    LET hyst_model == models[idx]
        r  == apply_field(hyst_model.buffers, hyst_model.transformer,
                          column(x, idx))
        ms == [models EXCEPT ![idx].buffers = r.buffers]
    IN IF r.out.exc # "none" THEN Outcome(ms, r.out, <<>>)
       ELSE apply_fields(ms, x, idx + 1)

\* hybrid.py:18-106: the constructor, on hysteresis models without history
ExactHybridGP(train_x, models) ==
  LET set == _set_hysteresis_model_train_data(models, train_x, 1) IN
  IF set.out.exc # "none" THEN set
  ELSE get_magnetization(set.models, FITTING, train_x, FITTING)

\* BaseHysteresis() as handed to the constructor
NewModel ==
  [buffers |-> NoBuffers, mode |-> FITTING,
   transformer |-> HysteresisTransform(None, None)]

\* train_x: one column per hysteresis model over [0, 1], all rising, or
\* rising and falling in turn
TrainArgs ==
  {[idx \in 1..NumModels |-> <<0, One>>],
   [idx \in 1..NumModels |-> IF idx % 2 = 1 THEN <<0, One>> ELSE <<One, 0>>]}

\* X of the calls: one column per hysteresis model; the same column for all,
\* of one or two values inside the valid domain, or a value outside the valid
\* domain for the first or for the last of the models
HybridArgs ==
  {[idx \in 1..NumModels |-> c] : c \in {<<0>>, <<0, One>>}}
    \cup {[idx \in 1..NumModels |->
              IF idx = k THEN <<One + machine_error + 1>> ELSE <<0>>] :
            k \in {1, NumModels}}

HybridCall(op, X, mode, r) ==
  [op |-> op, X |-> X, mode |-> mode, exc |-> r.out.exc, kind |-> r.out.kind,
   result |-> r.out.result, evaluated |-> r.evaluated]

\* ExactHybridGP(train_x, train_y, hysteresis_models): the hybrid model after
\* a construction that succeeds
HybridInit ==
  /\ trainable = TRUE
  /\ fixed_scaling = FALSE
  /\ transformer = HysteresisTransform(None, None)
  /\ _buffers = NoBuffers
  /\ _mode = FITTING
  /\ last = Idle
  /\ hybrid_mode = FITTING
  /\ hysteresis_models \in
       {ExactHybridGP(train_x, [i \in 1..NumModels |-> NewModel]).models :
          train_x \in {t \in TrainArgs :
             ExactHybridGP(t, [i \in 1..NumModels |-> NewModel]).out.exc
               = "none"}}
  /\ hybrid_last = HybridIdle

\* hybrid.py:119-125: get_magnetization(X, mode) by the caller
GetMagnetization ==
  \E X \in HybridArgs : \E mode \in Modes \cup {NoMode} :
    /\ hybrid_last = HybridIdle
    /\ LET r == get_magnetization(hysteresis_models, hybrid_mode, X, mode) IN
       /\ hysteresis_models' = r.models
       /\ hybrid_last' = HybridCall("get_magnetization", X, mode, r)
    /\ UNCHANGED hybrid_mode
    /\ UNCHANGED base_vars

\* hybrid.py:136-145: posterior(X) by the caller
Posterior ==
  \E X \in HybridArgs :
    /\ hybrid_last = HybridIdle
    /\ LET r == posterior(hysteresis_models, hybrid_mode, X) IN
       /\ hysteresis_models' = r.models
       /\ hybrid_last' = HybridCall("posterior", X, NoMode, r)
    /\ UNCHANGED hybrid_mode
    /\ UNCHANGED base_vars

\* hybrid.py:147-164: forward(X) by the caller
HybridForward ==
  \E X \in HybridArgs :
    /\ hybrid_last = HybridIdle
    /\ LET r == get_normalized_magnetization(hysteresis_models, hybrid_mode, X)
       IN /\ hysteresis_models' = r.models
          /\ hybrid_last' = HybridCall("forward", X, NoMode, r)
    /\ UNCHANGED hybrid_mode
    /\ UNCHANGED base_vars

\* hybrid.py:115-117: apply_fields(x) by the caller, x of one row
ApplyFields ==
  \E x \in {X \in HybridArgs : Len(X[1]) = 1} :
    /\ hybrid_last = HybridIdle
    /\ \A idx \in 1..Len(hysteresis_models) :
         Len(hysteresis_models[idx].buffers["_history_h"]) + Len(x[idx])
           <= MaxHist
    /\ LET r == apply_fields(hysteresis_models, x, 1) IN
       /\ hysteresis_models' = r.models
       /\ hybrid_last' = HybridCall("apply_fields", x, NoMode, r)
    /\ UNCHANGED hybrid_mode
    /\ UNCHANGED base_vars

\* model.mode = m on the hybrid model by the caller (modes.py)
SetHybridMode ==
  \E m \in Modes :
    /\ hybrid_last = HybridIdle
    /\ hybrid_mode' = m
    /\ hybrid_last' =
         HybridCall("mode", <<>>, m, Outcome(hysteresis_models, Return(None), <<>>))
    /\ UNCHANGED hysteresis_models
    /\ UNCHANGED base_vars

\* the caller takes the outcome of the call on the hybrid model
HybridTakeOutcome ==
  /\ hybrid_last # HybridIdle
  /\ hybrid_last' = HybridIdle
  /\ UNCHANGED <<hybrid_mode, hysteresis_models>>
  /\ UNCHANGED base_vars

HybridNext ==
  \/ HybridTakeOutcome
  \/ GetMagnetization
  \/ Posterior
  \/ HybridForward
  \/ ApplyFields
  \/ SetHybridMode

HybridSpec == HybridInit /\ [][HybridNext]_vars

(***************************************************************************)
(* What the claims speak of.                                               *)
(***************************************************************************)
HasH == hasattr(_buffers, "_history_h")

HasM == hasattr(_buffers, "_history_m")

\* len() of a tensor: its first dimension
TLen(t) == IF t.shape = <<>> THEN 0 ELSE t.shape[1]

LenH == Len(_buffers["_history_h"])

LenM == TLen(_buffers["_history_m"])

SameLength == (HasH /\ HasM) => LenH = LenM

\* the call that has just ended was op and returned
Returned(op) == last.op = op /\ last.exc = "none"

\* set_history(h, m) was given 1-D h and no m, or 1-D m of h's length
WellFormed(c) ==
  /\ Len(c.x.shape) = 1
  /\ isTensor(c.m) => c.m.shape = c.x.shape

\* every value of tensor x is inside the valid domain of t
InDomain(t, x) ==
  \A i \in 1..Len(x.vals) :
     valid_domain(t)[1] <= x.vals[i] /\ x.vals[i] <= valid_domain(t)[2]

\* some value of tensor x is outside the valid domain of t beyond 1e-4
BeyondTolerance(t, x) ==
  \E i \in 1..Len(x.vals) :
     \/ x.vals[i] < valid_domain(t)[1] - 10
     \/ x.vals[i] > valid_domain(t)[2] + 10

(***************************************************************************)
(* C1.  As claimed: the stored field history and the stored output history *)
(* have the same length whenever both exist; stated step by step, no call  *)
(* with well-formed arguments takes the model from a state where they      *)
(* agree to one where they differ.                                         *)
(***************************************************************************)
C1_Original ==
  [][(last'.op \in {"set_history", "apply_field", "reset_history"}
        /\ (last'.op = "set_history" => WellFormed(last'))
        /\ SameLength)
     => SameLength']_vars

(***************************************************************************)
(* C1, amended.  A successful set_history with well-formed arguments       *)
(* leaves both histories stored with the same length; a successful         *)
(* apply_field(v) on a model that holds both appends the values of v to h  *)
(* and leaves m as it was, so that h is then longer than m by the number   *)
(* of values applied.                                                      *)
(***************************************************************************)
C1_Amended ==
  [][/\ (last'.op = "set_history" /\ last'.exc = "none" /\ WellFormed(last'))
          => (HasH' /\ HasM' /\ LenH' = LenM')
     /\ (last'.op = "apply_field" /\ last'.exc = "none" /\ HasH /\ HasM)
          => /\ HasH' /\ HasM'
             /\ _buffers'["_history_m"] = _buffers["_history_m"]
             /\ LenH' = LenH + Len(last'.x.vals)]_vars

\* apply_field has extended a history that set_history stored
C1_Witness ==
  /\ Returned("apply_field")
  /\ HasH /\ HasM
  /\ LenH = LenM + Len(last.x.vals)

(***************************************************************************)
(* C2.  apply_field(v) with every value of v inside the valid domain       *)
(* returns and is append-only: the stored normalized history afterwards is *)
(* the history before (empty when there was none) followed by the          *)
(* transformed values of v in order, and the state matrix has one row of   *)
(* |mesh| entries per stored value (one row for a single value applied to  *)
(* a model without history).                                               *)
(***************************************************************************)
C2_AppendOnly ==
  [][(last'.op = "apply_field" /\ InDomain(transformer, last'.x))
     => LET H == IF HasH THEN _buffers["_history_h"] ELSE <<>>
            v == last'.x.vals
            g == NormOne \div (transformer.domain[2] - transformer.domain[1])
        IN /\ last'.exc = "none"
           /\ HasH'
           /\ _buffers'["_history_h"] =
                H \o [i \in 1..Len(v) |-> (v[i] - transformer.domain[1]) * g]
           /\ hasattr(_buffers', "_states")
           /\ Len(_buffers'["_states"]) = Len(H) + Len(v)
           /\ \A i \in 1..(Len(H) + Len(v)) :
                Len(_buffers'["_states"][i]) = n_mesh_points
           /\ \A i \in 1..Len(H) :
                _buffers'["_states"][i] = _buffers["_states"][i]]_vars

\* apply_field has appended two values to a stored history
C2_Witness ==
  /\ Returned("apply_field")
  /\ Len(last.x.vals) = 2
  /\ HasH /\ LenH > 2

(***************************************************************************)
(* C3.  apply_field(v) with a value of v outside the valid domain beyond   *)
(* the tolerance raises a domain error and leaves the histories, the state *)
(* matrix, the mode and the transform as they were.                        *)
(***************************************************************************)
C3_RejectsWhole ==
  [][(last'.op = "apply_field" /\ BeyondTolerance(transformer, last'.x))
     => /\ last'.exc = "HysteresisError" /\ last'.kind = "domain"
        /\ UNCHANGED <<_buffers, _mode, transformer>>]_vars

\* apply_field has rejected a tensor whose first value is inside the domain,
\* on a model that holds a history
C3_Witness ==
  /\ last.op = "apply_field" /\ last.kind = "domain"
  /\ Len(last.x.vals) = 2
  /\ last.x.vals[1] = valid_domain(transformer)[1]
  /\ HasH

(***************************************************************************)
(* C4.  As claimed: in FITTING mode forward(x) returns only when history   *)
(* is set and x equals the stored untransformed field history, and with    *)
(* history set every other x of the same length raises.                    *)
(***************************************************************************)
C4_Original ==
  (last.op = "forward" /\ _mode = FITTING)
  => /\ last.exc = "none" => (HasH /\ last.x = T1(history_h(_buffers, transformer)))
     /\ (HasH /\ last.x.shape = <<LenH>>
           /\ last.x # T1(history_h(_buffers, transformer)))
        => last.exc # "none"

\* x is within torch.allclose's tolerance of the stored untransformed history:
\* |x - h| <= 1e-8 + 1e-5 * |h|, that is |x - h| <= (100 + |h|) \div 1e5 steps
C4_Close(x) ==
  \A i \in 1..LenH :
     LET h == history_h(_buffers, transformer)[i]
         d == IF x.vals[i] < h THEN h - x.vals[i] ELSE x.vals[i] - h
     IN  d <= (100 + (IF h < 0 THEN 0 - h ELSE h)) \div 100000

(***************************************************************************)
(* C4, amended.  In FITTING mode forward(x) returns only when both         *)
(* histories are stored with the same shape, and then a 1-D x of the       *)
(* history's length inside the valid domain returns exactly when every     *)
(* value of x is within torch.allclose's tolerance (1e-8 + 1e-5 |h|) of    *)
(* the stored untransformed history; it need not equal it.  Any other x of *)
(* that length raises: a domain error when a value is beyond the domain's  *)
(* tolerance, else a mode-consistency error.                               *)
(***************************************************************************)
C4_Amended ==
  (last.op = "forward" /\ _mode = FITTING)
  => /\ last.exc = "none"
          => (HasH /\ HasM /\ _buffers["_history_m"].shape = <<LenH>>)
     /\ (HasH /\ HasM /\ _buffers["_history_m"].shape = <<LenH>>
           /\ last.x.shape = <<LenH>>)
        => IF BeyondTolerance(transformer, last.x)
           THEN last.exc = "HysteresisError" /\ last.kind = "domain"
           ELSE IF C4_Close(last.x)
           THEN /\ last.exc = "none"
                /\ last.result.shape = <<LenH>>
           ELSE last.exc = "HysteresisError" /\ last.kind = "mode"

\* forward in FITTING mode has returned for an x that is not the stored history
C4_Witness ==
  /\ Returned("forward") /\ _mode = FITTING
  /\ HasH
  /\ last.x # T1(history_h(_buffers, transformer))

(***************************************************************************)
(* C5.  reset_history() leaves no stored field history, whatever calls     *)
(* preceded it; while there is none, every forward call in CURRENT or      *)
(* FITTING mode raises, for any x and for none; and only set_history or    *)
(* apply_field store a field history again.                                *)
(***************************************************************************)
C5_ResetThenFails ==
  [][/\ last'.op = "reset_history" => ~HasH'
     /\ (last'.op = "forward" /\ ~HasH /\ _mode \in {CURRENT, FITTING})
          => last'.exc # "none"
     /\ (~HasH /\ HasH') => last'.op \in {"set_history", "apply_field"}]_vars

\* forward in CURRENT mode has raised on a model whose history was reset (the
\* state matrix of the history is still there)
C5_Witness ==
  /\ last.op = "forward" /\ last.exc = "HysteresisError"
  /\ _mode = CURRENT
  /\ ~HasH /\ hasattr(_buffers, "_states")
  /\ isTensor(last.x)

(***************************************************************************)
(* C6.  As claimed: the mode changes only by the caller's assignment;      *)
(* set_history (with or without m), apply_field, reset_history and forward *)
(* leave the mode as it was.                                               *)
(***************************************************************************)
C6_Original ==
  [][last'.op \in {"set_history", "apply_field", "reset_history", "forward"}
     => _mode' = _mode]_vars

(***************************************************************************)
(* C7.  As claimed: a set_history call that raises a configuration error   *)
(* leaves the transform, the histories, the state matrix and the mode as   *)
(* they were.                                                              *)
(***************************************************************************)
C7_Original ==
  [][(last'.op = "set_history" /\ last'.kind = "config")
     => UNCHANGED <<transformer, _buffers, _mode>>]_vars

(***************************************************************************)
(* C8.  As claimed: in CURRENT mode with history set forward ignores x;    *)
(* whatever x is, the call ends as forward() without x ends.               *)
(***************************************************************************)
C8_Original ==
  (last.op = "forward" /\ _mode = CURRENT /\ HasH)
  => LET none == forward(_buffers, transformer, CURRENT, None)
     IN  last.exc = none.exc /\ last.result = none.result

\* the value of the last cached state and field: scale times the mean of the
\* last row of the state matrix, plus offset, plus slope times the last field
C8_LastValue ==
  LET row == _buffers["_states"][Len(_buffers["_states"])]
      up  == Cardinality({j \in 1..Len(row) : row[j] = 1})
  IN  (up * NormOne) \div Len(row) + _buffers["_history_h"][LenH]

(***************************************************************************)
(* C8, amended.  In CURRENT mode with history set forward returns the one  *)
(* value computed from the last cached state and field, the same for no x  *)
(* and for every tensor x that is inside the valid domain up to the        *)
(* tolerance; a tensor x with a value beyond the tolerance raises a domain *)
(* error, so the call does fail because of the value of x.                 *)
(***************************************************************************)
C8_Amended ==
  (last.op = "forward" /\ _mode = CURRENT /\ HasH)
  => IF isTensor(last.x) /\ BeyondTolerance(transformer, last.x)
     THEN last.exc = "HysteresisError" /\ last.kind = "domain"
     ELSE last.exc = "none" /\ last.result = T1(<<C8_LastValue>>)

\* forward in CURRENT mode has returned for a tensor x, on a history whose
\* first and last state differ
C8_Witness ==
  /\ Returned("forward") /\ _mode = CURRENT
  /\ HasH /\ isTensor(last.x)
  /\ _buffers["_states"][1] # _buffers["_states"][LenH]

(***************************************************************************)
(* C9.  forward leaves the stored field history, the stored output history *)
(* and the cached state matrix as they were, in every mode, whether it     *)
(* returns or raises.                                                      *)
(***************************************************************************)
C9_ForwardFrame ==
  [][last'.op = "forward" => _buffers' = _buffers]_vars

\* forward in NEXT mode has returned on a model that holds a history
C9_Witness ==
  /\ Returned("forward") /\ _mode = NEXT
  /\ HasH /\ HasM

(***************************************************************************)
(* C10.  As claimed: forward(x) in FUTURE mode on a model without stored   *)
(* history raises.                                                         *)
(***************************************************************************)
C10_Original ==
  (last.op = "forward" /\ _mode = FUTURE /\ ~HasH) => last.exc # "none"

\* one row of states per value of x, replayed over x from negative saturation
\* at field 0, and the values predicted from them
RECURSIVE C10_FromSaturation(_, _, _)
C10_FromSaturation(h, state, field) ==
  IF h = <<>> THEN <<>>
  ELSE LET s == [j \in 1..n_mesh_points |->
                   IF Head(h) > field /\ Head(h) >= mesh_points[j].alpha THEN 1
                   ELSE IF Head(h) < field /\ Head(h) <= mesh_points[j].beta
                        THEN 0
                   ELSE state[j]]
       IN  <<(Cardinality({j \in 1..n_mesh_points : s[j] = 1}) * NormOne)
               \div n_mesh_points + Head(h)>>
             \o C10_FromSaturation(Tail(h), s, Head(h))

(***************************************************************************)
(* C10, amended.  FUTURE mode does not need stored history: on a model     *)
(* without it forward(x) with a 1-D x inside the valid domain (up to the   *)
(* tolerance) returns one value per value of x, the continuation from      *)
(* negative saturation; it raises only for a missing x, an x beyond the    *)
(* tolerance of the domain (domain error) or an x that is not 1-D.         *)
(***************************************************************************)
C10_Amended ==
  (last.op = "forward" /\ _mode = FUTURE /\ ~HasH)
  => IF ~isTensor(last.x) THEN last.exc = "HysteresisError"
     ELSE IF BeyondTolerance(transformer, last.x)
     THEN last.exc = "HysteresisError" /\ last.kind = "domain"
     ELSE IF Len(last.x.shape) # 1 THEN last.exc = "ValueError"
     ELSE /\ last.exc = "none"
          /\ last.result =
               T1(C10_FromSaturation(
                    [i \in 1..Len(last.x.vals) |->
                       (last.x.vals[i] - transformer.domain[1])
                         * (NormOne \div (transformer.domain[2]
                                            - transformer.domain[1]))],
                    [j \in 1..n_mesh_points |-> 0], 0))

\* forward in FUTURE mode has returned on a model whose history was reset
C10_Witness ==
  /\ Returned("forward") /\ _mode = FUTURE
  /\ ~HasH /\ hasattr(_buffers, "_states")
  /\ Len(last.x.vals) = 2

\* forward(x) in FITTING mode has just ended, x being the stored field history
\* of a model that holds both histories with the same shape, inside the domain
C11_FittedOnHistory ==
  /\ last.op = "forward" /\ _mode = FITTING
  /\ HasH /\ HasM /\ _buffers["_history_m"].shape = <<LenH>>
  /\ last.x = T1(history_h(_buffers, transformer))
  /\ InDomain(transformer, last.x)

C12_Original ==
  [][(/\ last'.op = "set_history"
      /\ Len(last'.x.shape) = 1
      /\ isTensor(last'.m)
      /\ (Len(last'.m.shape) # 1 \/ last'.m.shape # last'.x.shape))
     => /\ last'.kind = "config"
        /\ _buffers' = _buffers]_vars

(***************************************************************************)
(* C13.  forward(x) with a tensor x and apply_field(x) raise a domain      *)
(* error exactly when some value of x is below domain_min - 1e-4 or above  *)
(* domain_max + 1e-4: a value at domain_max + 1.0 raises it, a value       *)
(* inside [domain_min - 1e-4, domain_max + 1e-4] never does.               *)
(***************************************************************************)
C13_DomainCheck ==
  (last.op \in {"forward", "apply_field"} /\ isTensor(last.x))
  => LET lo == transformer.domain[1]
         hi == transformer.domain[2]
         beyond == \E i \in 1..Len(last.x.vals) :
                      last.x.vals[i] < lo - 10 \/ last.x.vals[i] > hi + 10
     IN /\ (last.kind = "domain") <=> beyond
        /\ last.kind = "domain" => last.exc = "HysteresisError"
        /\ (\E i \in 1..Len(last.x.vals) : last.x.vals[i] = hi + 100000)
             => last.kind = "domain"

\* forward has ended without a domain error for a value above the domain's
\* upper end that is within the tolerance
C13_Witness ==
  /\ last.op = "forward" /\ isTensor(last.x)
  /\ last.kind # "domain"
  /\ last.x.vals[1] = transformer.domain[2] + 10

(***************************************************************************)
(* C14.  REGRESSION mode is stateless: forward(x) with a 1-D x inside the  *)
(* valid domain (up to the tolerance) returns, with or without stored      *)
(* history, and its result is a function of x and the transform alone,     *)
(* the replay of the normalized x from negative saturation, whatever       *)
(* history and state matrix the model holds.                               *)
(***************************************************************************)
C14_Stateless ==
  (/\ last.op = "forward" /\ _mode = REGRESSION
   /\ isTensor(last.x) /\ Len(last.x.shape) = 1
   /\ ~BeyondTolerance(transformer, last.x))
  => /\ last.exc = "none"
     /\ last.result =
          T1(C10_FromSaturation(
               [i \in 1..Len(last.x.vals) |->
                  (last.x.vals[i] - transformer.domain[1])
                    * (NormOne \div (transformer.domain[2]
                                       - transformer.domain[1]))],
               [j \in 1..n_mesh_points |-> 0], 0))

\* forward in REGRESSION mode has returned on a model whose cached last state
\* is not saturation, for an x whose continuation from that state (FUTURE
\* mode) has other values
C14_Witness ==
  /\ Returned("forward") /\ _mode = REGRESSION
  /\ HasH
  /\ _buffers["_states"][LenH] # [j \in 1..n_mesh_points |-> 0]
  /\ forward(_buffers, transformer, FUTURE, last.x).result # last.result

(***************************************************************************)
(* C15.  ExactHybridGP.posterior(X) called while the hybrid model's mode   *)
(* is not NEXT raises HysteresisError before any hysteresis model is       *)
(* evaluated: the mode, the histories and the state matrix of every        *)
(* hysteresis model are as they were before the call.                      *)
(***************************************************************************)
C15_PosteriorNeedsNext ==
  [][(hybrid_last'.op = "posterior" /\ hybrid_mode # NEXT)
     => /\ hybrid_last'.exc = "HysteresisError"
        /\ hybrid_last'.evaluated = <<>>
        /\ hysteresis_models' = hysteresis_models
        /\ hybrid_mode' = hybrid_mode]_vars

\* posterior has raised on a hybrid model in CURRENT mode whose hysteresis
\* models hold another mode and an extended history
C15_Witness ==
  /\ hybrid_last.op = "posterior" /\ hybrid_last.exc = "HysteresisError"
  /\ hybrid_mode = CURRENT
  /\ \A idx \in 1..Len(hysteresis_models) :
       /\ hysteresis_models[idx].mode = FUTURE
       /\ Len(hysteresis_models[idx].buffers["_history_h"]) = 3

(***************************************************************************)
(* C16.  Batched independence: with a stored history, element i of         *)
(* forward([c1, ..., cn]) in NEXT mode, for candidates inside the valid    *)
(* domain, is the value of forward([ci]) in NEXT mode and of forward([ci]) *)
(* in FUTURE mode from the same cached state and field; the candidates do  *)
(* not chain, so the value for ci does not depend on the other candidates  *)
(* or on their order.                                                      *)
(***************************************************************************)
C16_BatchedIndependence ==
  (/\ last.op = "forward" /\ _mode = NEXT /\ HasH
   /\ isTensor(last.x) /\ Len(last.x.shape) = 1
   /\ ~BeyondTolerance(transformer, last.x))
  => /\ last.exc = "none"
     /\ last.result.shape = last.x.shape
     /\ \A i \in 1..Len(last.x.vals) :
          LET ci == T1(<<last.x.vals[i]>>) IN
          /\ forward(_buffers, transformer, NEXT, ci)
               = Return(T1(<<last.result.vals[i]>>))
          /\ forward(_buffers, transformer, FUTURE, ci)
               = Return(T1(<<last.result.vals[i]>>))

\* forward in NEXT mode has returned for a batch of candidates whose values
\* differ from those of the same fields applied one after the other (FUTURE)
C16_Witness ==
  /\ Returned("forward") /\ _mode = NEXT /\ HasH
  /\ Len(last.x.shape) = 1 /\ Len(last.x.vals) >= 2
  /\ forward(_buffers, transformer, FUTURE, last.x).result # last.result

(***************************************************************************)
(* C17.  Speculative and committed evaluation agree: with a stored history *)
(* and x inside the valid domain, the values forward(x) returns in FUTURE  *)
(* mode before apply_field(x) are the values of the rows that              *)
(* apply_field(x) appends, whose state matrix is recomputed over the whole *)
(* extended history; for a single value v, forward([v]) in FUTURE mode     *)
(* before is forward() in CURRENT mode after apply_field(v).               *)
(***************************************************************************)
C17_FutureAgreesWithApply ==
  [][(last'.op = "apply_field" /\ last'.exc = "none" /\ HasH)
     => LET x == T1(last'.x.vals)
            k == Len(x.vals)
            f == forward(_buffers, transformer, FUTURE, x)
        IN /\ f.exc = "none"
           /\ f.result.shape = <<k>>
           /\ \A i \in 1..k :
                LET row == _buffers'["_states"][LenH + i]
                    up  == Cardinality({j \in 1..Len(row) : row[j] = 1})
                IN f.result.vals[i] =
                     scale * ((up * NormOne) \div Len(row)) + offset * NormOne
                       + slope * _buffers'["_history_h"][LenH + i]
           /\ k = 1 => forward(_buffers', transformer, CURRENT, None) = f]_vars

\* apply_field has appended one value to a stored history, and the state of
\* the hysterons differs from the one the same field leaves from saturation
C17_Witness ==
  /\ Returned("apply_field") /\ Len(last.x.vals) = 1
  /\ HasH /\ LenH >= 2
  /\ _buffers["_states"][LenH]
       # replay(<<_buffers["_history_h"][LenH]>>, saturation, 0)[1]

(***************************************************************************)
(* C18.  Cache consistency: whenever a field history is stored, the state  *)
(* matrix is stored too, has one row of |mesh| entries per history entry,  *)
(* and is the state function replayed from negative saturation over the    *)
(* whole stored normalized field history.                                  *)
(***************************************************************************)
C18_CacheConsistent ==
  HasH
  => /\ hasattr(_buffers, "_states")
     /\ Len(_buffers["_states"]) = LenH
     /\ \A i \in 1..LenH : Len(_buffers["_states"][i]) = n_mesh_points
     /\ _buffers["_states"] = replay(_buffers["_history_h"], saturation, 0)

\* apply_field has extended the history that set_history stored, and the new
\* last row of the state matrix differs from the last row before
C18_Witness ==
  /\ Returned("apply_field")
  /\ HasH /\ HasM /\ LenH = LenM + 1
  /\ _buffers["_states"][LenH] # _buffers["_states"][LenM]

(***************************************************************************)
(* C19.  As claimed: reset_history() on a model that holds a field history *)
(* returns without error and leaves no field history, no output history    *)
(* and no state matrix, also when the field history was created by         *)
(* apply_field alone and no output history is stored.                      *)
(***************************************************************************)
C19_Original ==
  [][(last'.op = "reset_history" /\ HasH)
     => /\ last'.exc = "none"
        /\ ~hasattr(_buffers', "_history_h")
        /\ ~hasattr(_buffers', "_history_m")
        /\ ~hasattr(_buffers', "_states")]_vars

\* the mode get_magnetization(X, mode) is to use: the mode argument when one
\* is given, else the hybrid model's own mode
C20_Mode(call, own) == IF call.mode # "None" THEN call.mode ELSE own

(***************************************************************************)
(* C20.  As claimed: get_magnetization(X, mode) evaluates every hysteresis *)
(* model in the mode argument when one is given and in the hybrid model's  *)
(* own mode otherwise, and after the call all hysteresis models hold that  *)
(* mode.                                                                   *)
(***************************************************************************)
C20_Original ==
  [][hybrid_last'.op = "get_magnetization"
     => LET M == C20_Mode(hybrid_last', hybrid_mode) IN
        /\ \A i \in 1..Len(hybrid_last'.evaluated) :
             hybrid_last'.evaluated[i] = M
        /\ \A idx \in 1..Len(hysteresis_models') :
             hysteresis_models'[idx].mode = M]_vars

(***************************************************************************)
(* C20, amended.  get_magnetization(X, mode) assigns the mode (the         *)
(* argument when given, else the hybrid model's own mode) to each          *)
(* hysteresis model just before evaluating it, in list order: every model  *)
(* that is evaluated is evaluated in that mode.  After a call that returns *)
(* all hysteresis models hold that mode.  When the evaluation of a model   *)
(* raises, the call ends there: that model and those before it hold the    *)
(* mode, the models after it keep the mode they had.  The histories and    *)
(* the hybrid model's own mode are as before.                              *)
(***************************************************************************)
C20_Amended ==
  [][hybrid_last'.op = "get_magnetization"
     => LET M == C20_Mode(hybrid_last', hybrid_mode)
            k == Len(hybrid_last'.evaluated)
            n == Len(hysteresis_models)
        IN /\ Len(hysteresis_models') = n
           /\ 1 <= k /\ k <= n
           /\ hybrid_last'.exc = "none" => k = n
           /\ \A i \in 1..k : hybrid_last'.evaluated[i] = M
           /\ \A idx \in 1..n :
                /\ hysteresis_models'[idx].mode =
                     IF idx <= k THEN M ELSE hysteresis_models[idx].mode
                /\ hysteresis_models'[idx].buffers
                     = hysteresis_models[idx].buffers
           /\ hybrid_mode' = hybrid_mode]_vars

\* get_magnetization(X, mode = REGRESSION) has returned on a hybrid model in
\* CURRENT mode, and every hysteresis model holds REGRESSION
C20_Witness ==
  /\ hybrid_last.op = "get_magnetization" /\ hybrid_last.exc = "none"
  /\ hybrid_last.mode = REGRESSION /\ hybrid_mode = CURRENT
  /\ Len(hybrid_last.evaluated) = Len(hysteresis_models)
  /\ \A idx \in 1..Len(hysteresis_models) :
       hysteresis_models[idx].mode = REGRESSION

====
